---- MODULE Spec2Model ----
(***************************************************************************)
(* Model of memory_snapshot_db.py: the boot recorder (BootRecorder), the   *)
(* snapshot store (MemorySnapshotDB), the boot-stage classifier, the       *)
(* pattern analysis of a saved region, and the debug-stub client           *)
(* (GDBInterface).                                                         *)
(*                                                                         *)
(* Addresses are 32-bit values.  They are written as pairs <<hi, lo>> of   *)
(* 16-bit halves, compared lexicographically, so that 0xe1000000 keeps its *)
(* value.                                                                  *)
(***************************************************************************)
EXTENDS Integers, Sequences, FiniteSets, TLC

VARIABLES
    phase,            \* position of main()/BootRecorder in the --record-boot path
    max_instructions, \* args.max_instructions
    conn,             \* MemorySnapshotDB.conn is an open sqlite3 connection
    sock,             \* GDBInterface.sock is an open socket
    connected,        \* GDBInterface.connected
    session_id,       \* BootRecorder.session_id (NULL before start_boot_session)
    current_stage,    \* BootRecorder.current_stage
    stage_snapshots,  \* BootRecorder.stage_snapshots: set of <<stage, snapshot_id>>
    i,                \* loop variable of record_boot_sequence
    pc,               \* local pc of the current iteration
    instr_bytes,      \* local instr_bytes of the current iteration
    snap,             \* the save_memory_snapshot call in progress
    db,               \* the store as the connection sees it (committed + pending)
    disk,             \* the committed store
    steps,            \* number of single_step calls issued
    exit_reason,      \* how start_recording / record_boot_sequence was left
    end_session,      \* outcome of the end_boot_session call of finish_recording
    raised,           \* the exception that escapes main(), or "none"
    written,          \* the connection's view when record_boot_sequence was left
    stage_at_start,   \* current_stage as it was when the current iteration began
    cls,              \* classifier harness: table, pc and result
    rx,               \* stub client harness: the receive path
    batch,            \* long-recording harness: counts of pending and committed trace rows
    pat               \* pattern harness: one region saved and analysed

mainVars == <<phase, max_instructions, conn, sock, connected, session_id,
              current_stage, stage_snapshots, i, pc, instr_bytes, snap, db, disk,
              steps, exit_reason, end_session, raised, written, stage_at_start>>
vars == <<phase, max_instructions, conn, sock, connected, session_id,
          current_stage, stage_snapshots, i, pc, instr_bytes, snap, db, disk,
          steps, exit_reason, end_session, raised, written, stage_at_start,
          cls, rx, batch, pat>>

---------------------------------------------------------------------------
(* Bounds of the model *)

\* largest --max-instructions value explored
MaxInstr == 2
\* largest number of entries of a range table given to the classifier alone
MaxTable == 2
\* number of recv() calls on a closed connection that are counted
MaxRecv == 3
\* largest --max-instructions value of the long recording
MaxSeq == 2001
\* region contents: at most MaxPieces pieces (a pattern word, half a word, a
\* zero byte), any bytes up to length MaxBytes, and MaxReps pattern words
MaxPieces == 4
MaxBytes == 4
MaxReps == 2048

---------------------------------------------------------------------------
(* Values *)

NULL == "NULL"
\* self.session_id = None (falsy, as "if self.session_id:" reads it)
NoSession == 0
\* datetime.now().isoformat(): some non-null text
Timestamp == "timestamp"

Addr(hi, lo) == <<hi, lo>>
AddrLE(a, b) == a[1] < b[1] \/ (a[1] = b[1] /\ a[2] <= b[2])
AddrLT(a, b) == a[1] < b[1] \/ (a[1] = b[1] /\ a[2] < b[2])

RECURSIVE SumSeq(_)
SumSeq(s) == IF s = <<>> THEN 0 ELSE Head(s) + SumSeq(Tail(s))

\* self.boot_stages
boot_stages ==
    << [name |-> "elfloader",        start |-> Addr(\h6000, \h0000), end |-> Addr(\h6100, \h0000)],
       [name |-> "seL4_boot",        start |-> Addr(\hE000, \h0000), end |-> Addr(\hE100, \h0000)],
       [name |-> "rootserver_start", start |-> Addr(\h0001, \h0000), end |-> Addr(\h0002, \h0000)],
       [name |-> "camkes_init",      start |-> Addr(\h4000, \h0000), end |-> Addr(\h4000, \h1000)],
       [name |-> "freertos_main",    start |-> Addr(\h4000, \h0E70), end |-> Addr(\h4000, \h1000)],
       [name |-> "pattern_painting", start |-> Addr(\h4000, \h08E8), end |-> Addr(\h4000, \h1000)],
       [name |-> "scheduler_start",  start |-> Addr(\h4000, \h3000), end |-> Addr(\h4000, \h4000)] >>

\* self.memory_regions, in insertion order, each with the key _capture_memory_regions gives it
memory_regions ==
    << [name |-> "guest_base",     label |-> "guest_base_0x40000000",     addr |-> Addr(\h4000, \h0000), size |-> \h1000],
       [name |-> "stack_region",   label |-> "stack_region_0x41000000",   addr |-> Addr(\h4100, \h0000), size |-> \h1000],
       [name |-> "data_region",    label |-> "data_region_0x41200000",    addr |-> Addr(\h4120, \h0000), size |-> \h1000],
       [name |-> "heap_region",    label |-> "heap_region_0x41400000",    addr |-> Addr(\h4140, \h0000), size |-> \h1000],
       [name |-> "pattern_region", label |-> "pattern_region_0x42000000", addr |-> Addr(\h4200, \h0000), size |-> \h4000],
       [name |-> "uart_region",    label |-> "uart_region_0x09000000",    addr |-> Addr(\h0900, \h0000), size |-> \h0100] >>

\* text is a sequence of one-character strings
HexDigits == <<"0", "1", "2", "3", "4", "5", "6", "7", "8", "9", "a", "b", "c", "d", "e", "f">>

\* format(n, "x")
RECURSIVE Hex(_)
Hex(n) == IF n < 16 THEN <<HexDigits[n + 1]>>
          ELSE Hex(n \div 16) \o <<HexDigits[(n % 16) + 1]>>

\* the zero padding of a format width
RECURSIVE PadLeft(_, _)
PadLeft(text, width) == IF Len(text) >= width THEN text ELSE PadLeft(<<"0">> \o text, width)

\* f"{address:x}" and f"{address:08x}" of a 32-bit address
HexAddr(a) == IF a[1] = 0 THEN Hex(a[2]) ELSE Hex(a[1]) \o PadLeft(Hex(a[2]), 4)
Hex08(a) == PadLeft(HexAddr(a), 8)

\* the pieces of a sequence of texts, joined
RECURSIVE Flatten(_)
Flatten(ps) == IF ps = <<>> THEN <<>> ELSE Head(ps) \o Flatten(Tail(ps))

\* "sub in text"
HasSub(text, sub) ==
    \E k \in 1..(Len(text) - Len(sub) + 1) : SubSeq(text, k, k + Len(sub) - 1) = sub

\* str.lower(), on the capital letters that occur in the region names used here
Lower(text) ==
    [k \in 1..Len(text) |->
        CASE text[k] = "S" -> "s" [] text[k] = "T" -> "t" [] text[k] = "A" -> "a"
          [] text[k] = "C" -> "c" [] text[k] = "K" -> "k" [] OTHER -> text[k]]

---------------------------------------------------------------------------
(* Inputs: what the stub answers *)

\* values get_current_pc can return: 0 (read_registers failed) and one address
\* in or at the edge of the configured ranges
PcSet == { Addr(\h0000, \h0000), Addr(\h0001, \h0000), Addr(\h4000, \h0000),
           Addr(\h4000, \h0E70), Addr(\h4000, \h1000) }

\* values read_memory(pc, 4) can return: empty (failed), the 4 bytes of
\* "mov r0, r0", or more bytes than were asked for
InstrReads == { <<>>, <<0, 0, 160, 225>>, <<0, 0, 160, 225, 0>> }

\* what read_memory returns for the six configured regions, in table order
MemoryImages ==
    { << <<0, 0, 0, 0>>, <<239, 190, 173, 222>>, <<120, 86, 52, 18>>,
         <<190, 186, 254, 202>>, <<170, 85, 170, 85>>, <<0, 0>> >>,
      << <<>>, <<239, 190, 173, 222, 239, 190, 173, 222>>, <<>>, <<1, 2, 3>>, <<>>, <<>> >>,
      << <<>>, <<>>, <<>>, <<>>, <<>>, <<>> >> }

---------------------------------------------------------------------------
(* Boot-stage classifier *)

\* the classifier with "start <= pc <= end" for "start <= pc < end"
RECURSIVE DetermineStageInclusiveEnd(_, _)
DetermineStageInclusiveEnd(table, p) ==
    IF table = <<>> THEN "unknown"
    ELSE IF AddrLE(Head(table).start, p) /\ AddrLE(p, Head(table).end)
         THEN Head(table).name
         ELSE DetermineStageInclusiveEnd(Tail(table), p)

\* BootRecorder._determine_boot_stage over an explicit table
RECURSIVE DetermineStage(_, _)
DetermineStage(table, p) ==
    IF table = <<>> THEN "unknown"
    ELSE IF AddrLE(Head(table).start, p) /\ AddrLT(p, Head(table).end)
         THEN Head(table).name
         ELSE DetermineStage(Tail(table), p)

_determine_boot_stage(p) == DetermineStage(boot_stages, p)

---------------------------------------------------------------------------
(* Snapshot store *)

EmptyStore == [sessions |-> <<>>, snapshots |-> <<>>, regions |-> <<>>, traces |-> <<>>]

\* the store a finished earlier run (budget 1, registers unreadable) leaves behind
\* addr + n of a 32-bit address, n below 2^16
AddrPlus(a, n) == <<a[1] + ((a[2] + n) \div 65536), (a[2] + n) % 65536>>

\* the known function addresses, in the order the dict is written and iterated
functions ==
    << [addr |-> Addr(\h4000, \h0000), name |-> <<"_start">>],
       [addr |-> Addr(\h4000, \h0E70), name |-> <<"main">>],
       [addr |-> Addr(\h4000, \h08E8), name |-> <<"vMemoryPatternDebugTask">>],
       [addr |-> Addr(\h4000, \h1014), name |-> <<"vMonitorTask">>] >>

\* f"unknown_0x{pc:08x}", as the prefix followed by the eight hex digits
UnknownFunction(p) == <<"unknown_0x">> \o Hex08(p)

\* MemorySnapshotDB._get_function_name: the first entry whose 4 KB window
\* holds pc
RECURSIVE FunctionNameIn(_, _)
FunctionNameIn(table, p) ==
    IF table = <<>> THEN UnknownFunction(p)
    ELSE IF AddrLE(Head(table).addr, p) /\ AddrLT(p, AddrPlus(Head(table).addr, \h1000))
         THEN Head(table).name
         ELSE FunctionNameIn(Tail(table), p)
_get_function_name(p) == FunctionNameIn(functions, p)

PriorStore ==
    [sessions  |-> << [session_id |-> 1, start_time |-> Timestamp, end_time |-> Timestamp] >>,
     snapshots |-> <<>>,
     regions   |-> <<>>,
     traces    |-> << [session_id |-> 1, sequence_number |-> 0, pc_address |-> Addr(0, 0),
                       instruction_bytes |-> <<>>, disassembly |-> "invalid",
                       function_name |-> _get_function_name(Addr(0, 0)),
                       boot_stage |-> "unknown"] >>]

\* start_boot_session: INSERT INTO boot_sessions; cursor.lastrowid
SessionRow(S) ==
    [session_id |-> Len(S.sessions) + 1, start_time |-> Timestamp, end_time |-> NULL]

\* end_boot_session: UPDATE boot_sessions SET end_time = ? WHERE session_id = ?
EndSessionRows(S, sid) ==
    [S EXCEPT !.sessions =
        [k \in 1..Len(S.sessions) |->
            IF S.sessions[k].session_id = sid
            THEN [S.sessions[k] EXCEPT !.end_time = Timestamp]
            ELSE S.sessions[k]]]

\* save_memory_snapshot: total_size and the INSERT INTO memory_snapshots
SnapshotRow(S, sid, stage, p, memory_data) ==
    [snapshot_id    |-> Len(S.snapshots) + 1,
     session_id     |-> sid,
     boot_stage     |-> stage,
     pc_address     |-> p,
     memory_regions |-> [k \in 1..Len(memory_data) |-> memory_data[k].label],
     total_size     |-> SumSeq([k \in 1..Len(memory_data) |-> Len(memory_data[k].data)])]

\* save_memory_snapshot: one INSERT INTO memory_regions
RegionRow(snapshot_id, entry) ==
    [snapshot_id |-> snapshot_id,
     region_name |-> entry.label,
     size        |-> Len(entry.data),
     data        |-> entry.data]

\* expected_pattern = None
NoPattern == <<>>

\* the keyword tests with "heap" tried before "stack"
ExpectedPatternHeapFirst(region_name) ==
    IF HasSub(Lower(region_name), <<"h", "e", "a", "p">>) THEN <<\hCAFE, \hBABE>>
    ELSE IF HasSub(Lower(region_name), <<"s", "t", "a", "c", "k">>) THEN <<\hDEAD, \hBEEF>>
    ELSE IF HasSub(Lower(region_name), <<"d", "a", "t", "a">>) THEN <<\h1234, \h5678>>
    ELSE IF HasSub(Lower(region_name), <<"p", "a", "t", "t", "e", "r", "n">>) THEN <<\h55AA, \h55AA>>
    ELSE NoPattern

\* save_memory_snapshot, lines 321-332: the expected word of a region, by the
\* first keyword its lower-cased name contains; a word is <<high half, low half>>
ExpectedPattern(region_name) ==
    IF HasSub(Lower(region_name), <<"s", "t", "a", "c", "k">>) THEN <<\hDEAD, \hBEEF>>
    ELSE IF HasSub(Lower(region_name), <<"d", "a", "t", "a">>) THEN <<\h1234, \h5678>>
    ELSE IF HasSub(Lower(region_name), <<"h", "e", "a", "p">>) THEN <<\hCAFE, \hBABE>>
    ELSE IF HasSub(Lower(region_name), <<"p", "a", "t", "t", "e", "r", "n">>) THEN <<\h55AA, \h55AA>>
    ELSE NoPattern

\* struct.pack('>I', word): most significant byte first
PackBE(w) == <<w[1] \div 256, w[1] % 256, w[2] \div 256, w[2] % 256>>

\* struct.pack('<I', word)
PackLE(w) == <<w[2] % 256, w[2] \div 256, w[1] % 256, w[1] \div 256>>

\* a search that goes on one byte behind the start of an occurrence, so that
\* overlapping occurrences are all counted
SkipOne(sub) == 1

\* bytes.count: the search goes on behind the end of an occurrence
SkipOccurrence(sub) == Len(sub)

\* the left-to-right search of bytes.count from position k up to position
\* stop: <<occurrences found, position reached>>.  An occurrence may start at
\* any offset.  A long stretch is searched as two halves, the second from
\* where the first ended.
RECURSIVE ScanFrom(_, _, _, _)
ScanFrom(data, sub, k, stop) ==
    IF k >= stop \/ k + Len(sub) - 1 > Len(data) THEN <<0, k>>
    ELSE IF stop - k > 16
         THEN LET first == ScanFrom(data, sub, k, k + (stop - k) \div 2)
                  rest  == ScanFrom(data, sub, first[2], stop)
              IN  <<first[1] + rest[1], rest[2]>>
    ELSE IF SubSeq(data, k, k + Len(sub) - 1) = sub
         THEN LET rest == ScanFrom(data, sub, k + SkipOccurrence(sub), stop)
              IN  <<1 + rest[1], rest[2]>>
         ELSE ScanFrom(data, sub, k + 1, stop)

\* bytes.count(sub)
BytesCount(data, sub) == ScanFrom(data, sub, 1, Len(data) + 1)[1]

\* save_memory_snapshot, lines 321-356: the size and pattern columns of the
\* memory_regions row of one region
RegionAnalysis(region_name, data) ==
    [region_name      |-> region_name,
     size             |-> Len(data),
     expected_pattern |-> ExpectedPattern(region_name),
     pattern_matches  |-> IF ExpectedPattern(region_name) # NoPattern
                          THEN BytesCount(data, PackLE(ExpectedPattern(region_name)))
                          ELSE 0]

\* analyze_memory_evolution: match_percentage of a region row, as the fraction
\* num/den; the division raises when the region is shorter than one word
MatchPercentage(row) ==
    IF row.expected_pattern = NoPattern THEN [raised |-> "none", num |-> 0, den |-> 1]
    ELSE IF row.size \div 4 = 0 THEN [raised |-> "ZeroDivisionError", num |-> 0, den |-> 0]
    ELSE [raised |-> "none", num |-> row.pattern_matches * 100, den |-> row.size \div 4]

\* _disassemble_arm without "if len(instr_bytes) < 4": struct.unpack raises on
\* every buffer that is not 4 bytes long
_disassemble_arm_unguarded(bytes, p) ==
    IF Len(bytes) # 4 THEN "raise"
    ELSE IF bytes[4] % 16 = 10 THEN "b"
    ELSE IF bytes[4] % 16 = 11 THEN "bl"
    ELSE IF bytes[4] % 16 = 1 /\ bytes[3] \div 32 = 5 THEN "mov r?, r?"
    ELSE IF (bytes[4] \div 4) % 4 = 1 THEN "ldr/str"
    ELSE "instr"

\* BootRecorder._disassemble_arm, to the kind of text it returns ("b" and "bl"
\* without the target, "instr" without the word).  instr is the little-endian
\* word, so its bits 24-31 are bytes[4] and its bits 16-23 are bytes[3].
\* struct.unpack('<I', ...) raises struct.error on a buffer longer than 4 bytes.
_disassemble_arm(bytes, p) ==
    IF Len(bytes) < 4 THEN "invalid"
    ELSE IF Len(bytes) # 4 THEN "raise"
    ELSE IF bytes[4] % 16 = 10 THEN "b"
    ELSE IF bytes[4] % 16 = 11 THEN "bl"
    ELSE IF bytes[4] % 16 = 1 /\ bytes[3] \div 32 = 5 THEN "mov r?, r?"
    ELSE IF (bytes[4] \div 4) % 4 = 1 THEN "ldr/str"
    ELSE "instr"

\* save_instruction_trace: the INSERT INTO instruction_traces
TraceRow(sid, sequence, p, bytes, stage) ==
    [session_id        |-> sid,
     sequence_number   |-> sequence,
     pc_address        |-> p,
     instruction_bytes |-> bytes,
     disassembly       |-> _disassemble_arm(bytes, p),
     function_name     |-> _get_function_name(p),
     boot_stage        |-> stage]

\* save_instruction_trace: "if sequence % 1000 == 0" commits
CommitEvery == 1000
\* save_instruction_trace committing on every multiple of 1000 but 0
TraceCommitsSkipFirst(sequence) == sequence > 0 /\ sequence % CommitEvery = 0
TraceCommits(sequence) == sequence % CommitEvery = 0

---------------------------------------------------------------------------
(* Boot recorder *)

\* _capture_memory_regions: only the regions whose read returned data are kept
_capture_memory_regions(img) ==
    SelectSeq([k \in 1..Len(memory_regions) |->
                  [label |-> memory_regions[k].label, data |-> img[k]]],
              LAMBDA e : e.data # <<>>)

NoSnap == [kind |-> "none"]

\* the loop running to i = max_instructions inclusive
LoopDoneOffByOne == i > max_instructions

\* "for i in range(max_instructions)" is exhausted
LoopDone == i >= max_instructions

\* "if self.current_stage == 'pattern_painting' and i % 5000 == 0"
SnapshotEvery == 5000
PeriodicDue == current_stage = "pattern_painting" /\ i % SnapshotEvery = 0

LoopPhases == {"loop", "snapshot", "regions", "trace", "step"}

\* BootRecorder.__init__, GDBInterface.__init__, MemorySnapshotDB.__init__
RecorderInit ==
    /\ phase = "start"
    /\ max_instructions \in 0..MaxInstr
    /\ conn = FALSE
    /\ sock = FALSE
    /\ connected = FALSE
    /\ session_id = NoSession
    /\ current_stage = "unknown"
    /\ stage_snapshots = {}
    /\ i = 0
    /\ pc = Addr(0, 0)
    /\ instr_bytes = <<>>
    /\ snap = NoSnap
    /\ disk \in {EmptyStore, PriorStore}
    /\ db = disk
    /\ steps = 0
    /\ exit_reason = "none"
    /\ end_session = "not_called"
    /\ raised = "none"
    /\ written = disk
    /\ stage_at_start = "unknown"

Init ==
    /\ RecorderInit
    /\ cls = [state |-> "idle"]
    /\ rx = [state |-> "idle"]
    /\ batch = [state |-> "idle"]
    /\ pat = [state |-> "idle"]

(* start_recording, as main() calls it *)

\* init_database() returns False: start_recording returns False and main() does
\* nothing more.  sqlite3.connect may or may not have succeeded before the error.
StartRecordingInitFail ==
    /\ phase = "start"
    /\ \E opened \in BOOLEAN : conn' = opened
    /\ exit_reason' = "init_failed"
    /\ phase' = "exited"
    /\ UNCHANGED <<max_instructions, sock, connected, session_id, current_stage,
                   stage_snapshots, i, pc, instr_bytes, snap, db, disk, steps,
                   end_session, raised, written, cls, rx,
                   batch, pat, stage_at_start>>

\* start_recording opening the session before it connects to the stub
StartRecordingSessionFirst ==
    /\ phase = "start"
    /\ conn' = TRUE
    /\ db' = [db EXCEPT !.sessions = Append(@, SessionRow(db))]
    /\ disk' = db'
    /\ session_id' = SessionRow(db).session_id
    /\ \E created \in BOOLEAN, established \in BOOLEAN :
          /\ established => created
          /\ sock' = created
          /\ connected' = established
    /\ exit_reason' = "connect_failed"
    /\ phase' = "exited"
    /\ UNCHANGED <<max_instructions, current_stage, stage_snapshots, i, pc,
                   instr_bytes, snap, steps, end_session, raised, written, cls, rx,
                   batch, pat, stage_at_start>>

\* gdb.connect() returns False: the socket may exist (connect() or the handshake
\* raised) or not (socket.socket() raised); start_recording returns False.
StartRecordingConnectFail ==
    /\ phase = "start"
    /\ conn' = TRUE
    /\ \E created \in BOOLEAN, established \in BOOLEAN :
          /\ established => created
          /\ sock' = created
          /\ connected' = established
    /\ exit_reason' = "connect_failed"
    /\ phase' = "exited"
    /\ UNCHANGED <<max_instructions, session_id, current_stage, stage_snapshots, i,
                   pc, instr_bytes, snap, db, disk, steps, end_session, raised,
                   written, cls, rx,
                   batch, pat, stage_at_start>>

\* start_boot_session raises: nothing in start_recording or main() catches it
StartRecordingSessionFail ==
    /\ phase = "start"
    /\ conn' = TRUE
    /\ sock' = TRUE
    /\ connected' = TRUE
    /\ exit_reason' = "session_start_failed"
    /\ raised' = "Exception"
    /\ phase' = "exited"
    /\ UNCHANGED <<max_instructions, session_id, current_stage, stage_snapshots, i,
                   pc, instr_bytes, snap, db, disk, steps, end_session, written,
                   cls, rx,
                   batch, pat, stage_at_start>>

\* start_recording returns True: the session row is inserted and committed
StartRecordingOk ==
    /\ phase = "start"
    /\ conn' = TRUE
    /\ sock' = TRUE
    /\ connected' = TRUE
    /\ db' = [db EXCEPT !.sessions = Append(@, SessionRow(db))]
    /\ disk' = db'
    /\ session_id' = SessionRow(db).session_id
    /\ phase' = "loop"
    /\ UNCHANGED <<max_instructions, current_stage, stage_snapshots, i, pc,
                   instr_bytes, snap, steps, exit_reason, end_session, raised,
                   written, cls, rx,
                   batch, pat, stage_at_start>>

(* record_boot_sequence *)

\* the for loop is exhausted: "return True"
LoopExhausted ==
    /\ phase = "loop"
    /\ LoopDone
    /\ exit_reason' = "budget"
    /\ written' = db
    /\ phase' = "finish"
    /\ UNCHANGED <<max_instructions, conn, sock, connected, session_id,
                   current_stage, stage_snapshots, i, pc, instr_bytes, snap, db,
                   disk, steps, end_session, raised, cls, rx,
                   batch, pat, stage_at_start>>

\* the loop leaving current_stage as it is when the classifier returns "unknown"
ReadStateKeepsStageOnUnknown ==
    /\ phase = "loop"
    /\ ~LoopDone
    /\ \E p \in PcSet, bytes \in InstrReads :
          /\ pc' = p
          /\ instr_bytes' = bytes
          /\ stage_at_start' = current_stage
          /\ LET new_stage == _determine_boot_stage(p) IN
             IF _disassemble_arm(bytes, p) = "raise"
             THEN /\ exit_reason' = "disassembly_error"
                  /\ written' = db
                  /\ phase' = "finish"
                  /\ UNCHANGED <<current_stage, snap>>
             ELSE IF new_stage # current_stage /\ new_stage # "unknown"
             THEN /\ \E img \in MemoryImages :
                        snap' = [kind |-> "transition", stage |-> new_stage,
                                 memory_data |-> _capture_memory_regions(img),
                                 todo |-> _capture_memory_regions(img),
                                 snapshot_id |-> 0]
                  /\ phase' = "snapshot"
                  /\ UNCHANGED <<current_stage, exit_reason, written>>
             ELSE /\ current_stage' = IF new_stage = "unknown" THEN current_stage ELSE new_stage
                  /\ phase' = "trace"
                  /\ UNCHANGED <<snap, exit_reason, written>>
    /\ UNCHANGED <<max_instructions, conn, sock, connected, session_id,
                   stage_snapshots, i, db, disk, steps, end_session, raised,
                   cls, rx,
                   batch, pat>>

\* lines 477-499 up to the save_memory_snapshot call: read the state,
\* disassemble, classify, and either capture the regions for a snapshot or just
\* update current_stage.  An exception of _disassemble_arm is caught at line 528
\* ("return False").
ReadState ==
    /\ phase = "loop"
    /\ ~LoopDone
    /\ \E p \in PcSet, bytes \in InstrReads :
          /\ pc' = p
          /\ instr_bytes' = bytes
          /\ stage_at_start' = current_stage
          /\ LET new_stage == _determine_boot_stage(p) IN
             IF _disassemble_arm(bytes, p) = "raise"
             THEN /\ exit_reason' = "disassembly_error"
                  /\ written' = db
                  /\ phase' = "finish"
                  /\ UNCHANGED <<current_stage, snap>>
             ELSE IF new_stage # current_stage /\ new_stage # "unknown"
             THEN /\ \E img \in MemoryImages :
                        snap' = [kind |-> "transition", stage |-> new_stage,
                                 memory_data |-> _capture_memory_regions(img),
                                 todo |-> _capture_memory_regions(img),
                                 snapshot_id |-> 0]
                  /\ phase' = "snapshot"
                  /\ UNCHANGED <<current_stage, exit_reason, written>>
             ELSE /\ current_stage' = new_stage
                  /\ phase' = "trace"
                  /\ UNCHANGED <<snap, exit_reason, written>>
    /\ UNCHANGED <<max_instructions, conn, sock, connected, session_id,
                   stage_snapshots, i, db, disk, steps, end_session, raised,
                   cls, rx,
                   batch, pat>>

\* save_memory_snapshot, lines 290-308: the snapshot row
SaveSnapshotRow ==
    /\ phase = "snapshot"
    /\ LET row == SnapshotRow(db, session_id, snap.stage, pc, snap.memory_data) IN
          /\ db' = [db EXCEPT !.snapshots = Append(@, row)]
          /\ snap' = [snap EXCEPT !.snapshot_id = row.snapshot_id]
    /\ phase' = "regions"
    /\ UNCHANGED <<max_instructions, conn, sock, connected, session_id,
                   current_stage, stage_snapshots, i, pc, instr_bytes, disk, steps,
                   exit_reason, end_session, raised, written, cls, rx,
                   batch, pat, stage_at_start>>

\* the region INSERT as "INSERT OR REPLACE" keyed by the region name: a row of
\* an earlier snapshot with the same name is replaced
SaveRegionRowReplace ==
    /\ phase = "regions"
    /\ snap.todo # <<>>
    /\ db' = [db EXCEPT !.regions =
                 Append(SelectSeq(@, LAMBDA r : r.region_name # Head(snap.todo).label),
                        RegionRow(snap.snapshot_id, Head(snap.todo)))]
    /\ snap' = [snap EXCEPT !.todo = Tail(@)]
    /\ UNCHANGED <<phase, max_instructions, conn, sock, connected, session_id,
                   current_stage, stage_snapshots, i, pc, instr_bytes, disk, steps,
                   exit_reason, end_session, raised, written, cls, rx,
                   batch, pat, stage_at_start>>

\* save_memory_snapshot, lines 311-356: one pass of the loop over the regions
SaveRegionRow ==
    /\ phase = "regions"
    /\ snap.todo # <<>>
    /\ db' = [db EXCEPT !.regions = Append(@, RegionRow(snap.snapshot_id, Head(snap.todo)))]
    /\ snap' = [snap EXCEPT !.todo = Tail(@)]
    /\ UNCHANGED <<phase, max_instructions, conn, sock, connected, session_id,
                   current_stage, stage_snapshots, i, pc, instr_bytes, disk, steps,
                   exit_reason, end_session, raised, written, cls, rx,
                   batch, pat, stage_at_start>>

\* save_memory_snapshot, lines 358-360: commit and return; then the caller's
\* bookkeeping: lines 497-499 after a transition, the next iteration after a
\* pattern_painting snapshot
SaveSnapshotCommit ==
    /\ phase = "regions"
    /\ snap.todo = <<>>
    /\ disk' = db
    /\ snap' = NoSnap
    /\ IF snap.kind = "transition"
       THEN /\ stage_snapshots' =
                  {e \in stage_snapshots : e[1] # snap.stage} \cup {<<snap.stage, snap.snapshot_id>>}
            /\ current_stage' = snap.stage
            /\ phase' = "trace"
            /\ UNCHANGED i
       ELSE /\ i' = i + 1
            /\ phase' = "loop"
            /\ UNCHANGED <<stage_snapshots, current_stage>>
    /\ UNCHANGED <<max_instructions, conn, sock, connected, session_id, pc,
                   instr_bytes, db, steps, exit_reason, end_session, raised,
                   written, cls, rx,
                   batch, pat, stage_at_start>>

\* the loop skipping the trace row of a step whose instruction read failed
SaveTraceSkipUnreadable ==
    /\ phase = "trace"
    /\ db' = IF instr_bytes = <<>> THEN db
             ELSE [db EXCEPT !.traces =
                      Append(@, TraceRow(session_id, i, pc, instr_bytes, current_stage))]
    /\ disk' = IF TraceCommits(i) THEN db' ELSE disk
    /\ phase' = "step"
    /\ UNCHANGED <<max_instructions, conn, sock, connected, session_id,
                   current_stage, stage_snapshots, i, pc, instr_bytes, snap, steps,
                   exit_reason, end_session, raised, written, cls, rx,
                   batch, pat, stage_at_start>>

\* the loop passing the stage it had when the iteration began
SaveTraceStageAtStart ==
    /\ phase = "trace"
    /\ db' = [db EXCEPT !.traces =
                 Append(@, TraceRow(session_id, i, pc, instr_bytes, stage_at_start))]
    /\ disk' = IF TraceCommits(i) THEN db' ELSE disk
    /\ phase' = "step"
    /\ UNCHANGED <<max_instructions, conn, sock, connected, session_id,
                   current_stage, stage_snapshots, i, pc, instr_bytes, snap, steps,
                   exit_reason, end_session, raised, written, cls, rx,
                   batch, pat, stage_at_start>>

\* save_instruction_trace, lines 362-387
SaveTrace ==
    /\ phase = "trace"
    /\ db' = [db EXCEPT !.traces =
                 Append(@, TraceRow(session_id, i, pc, instr_bytes, current_stage))]
    /\ disk' = IF TraceCommits(i) THEN db' ELSE disk
    /\ phase' = "step"
    /\ UNCHANGED <<max_instructions, conn, sock, connected, session_id,
                   current_stage, stage_snapshots, i, pc, instr_bytes, snap, steps,
                   exit_reason, end_session, raised, written, cls, rx,
                   batch, pat, stage_at_start>>

\* lines 506-520: single_step, the break, and the pattern_painting snapshot
SingleStep ==
    /\ phase = "step"
    /\ steps' = steps + 1
    /\ \E ok \in BOOLEAN :
          IF ~ok
          THEN /\ exit_reason' = "step_failed"
               /\ written' = db
               /\ phase' = "finish"
               /\ UNCHANGED <<i, snap>>
          ELSE IF PeriodicDue
          THEN /\ \E img \in MemoryImages :
                     snap' = [kind |-> "periodic",
                              stage |-> "pattern_painting_step_" \o ToString(i \div SnapshotEvery),
                              memory_data |-> _capture_memory_regions(img),
                              todo |-> _capture_memory_regions(img),
                              snapshot_id |-> 0]
               /\ phase' = "snapshot"
               /\ UNCHANGED <<i, exit_reason, written>>
          ELSE /\ i' = i + 1
               /\ phase' = "loop"
               /\ UNCHANGED <<snap, exit_reason, written>>
    /\ UNCHANGED <<max_instructions, conn, sock, connected, session_id,
                   current_stage, stage_snapshots, pc, instr_bytes, db, disk,
                   end_session, raised, cls, rx,
                   batch, pat, stage_at_start>>

\* KeyboardInterrupt with no handler and no finally: the process ends with the
\* pending transaction lost
InterruptUncaught ==
    /\ phase \in LoopPhases
    /\ exit_reason' = "interrupted"
    /\ written' = db
    /\ raised' = "KeyboardInterrupt"
    /\ db' = disk
    /\ phase' = "exited"
    /\ UNCHANGED <<max_instructions, conn, sock, connected, session_id,
                   current_stage, stage_snapshots, i, pc, instr_bytes, snap, disk,
                   steps, end_session, cls, rx,
                   batch, pat, stage_at_start>>

\* lines 525-527: KeyboardInterrupt anywhere in the loop.  Before the first
\* iteration has bound i, the handler's print raises UnboundLocalError, which
\* leaves record_boot_sequence; main()'s finally still runs finish_recording.
Interrupt ==
    /\ phase \in LoopPhases
    /\ exit_reason' = "interrupted"
    /\ written' = db
    /\ \E bound \in BOOLEAN :
          /\ (phase = "loop" /\ LoopDone /\ i = 0) => ~bound
          /\ (phase # "loop" \/ i > 0) => bound
          /\ raised' = IF bound THEN "none" ELSE "UnboundLocalError"
    /\ phase' = "finish"
    /\ UNCHANGED <<max_instructions, conn, sock, connected, session_id,
                   current_stage, stage_snapshots, i, pc, instr_bytes, snap, db,
                   disk, steps, end_session, cls, rx,
                   batch, pat, stage_at_start>>

\* lines 528-530: a store operation of the loop raises; "return False".  In
\* save_instruction_trace the INSERT may raise, or the commit after it.
StoreError ==
    /\ phase \in {"snapshot", "regions", "trace"}
    /\ \E inserted \in BOOLEAN :
          /\ inserted => (phase = "trace" /\ TraceCommits(i))
          /\ db' = IF inserted
                   THEN [db EXCEPT !.traces =
                            Append(@, TraceRow(session_id, i, pc, instr_bytes, current_stage))]
                   ELSE db
    /\ written' = db'
    /\ exit_reason' = "store_error"
    /\ phase' = "finish"
    /\ UNCHANGED <<max_instructions, conn, sock, connected, session_id,
                   current_stage, stage_snapshots, i, pc, instr_bytes, snap, disk,
                   steps, end_session, raised, cls, rx,
                   batch, pat, stage_at_start>>

(* finish_recording, in main()'s finally *)

\* finish_recording closing the connections without end_boot_session
FinishRecordingNoEnd ==
    /\ phase = "finish"
    /\ db' = disk
    /\ sock' = FALSE
    /\ connected' = FALSE
    /\ conn' = FALSE
    /\ phase' = "exited"
    /\ UNCHANGED <<max_instructions, session_id, current_stage, stage_snapshots, i,
                   pc, instr_bytes, snap, disk, steps, exit_reason, end_session,
                   raised, written, cls, rx,
                   batch, pat, stage_at_start>>

\* lines 575-579: end_boot_session (update and commit), gdb.close(), db.close()
FinishRecording ==
    /\ phase = "finish"
    /\ IF session_id # NoSession
       THEN /\ disk' = EndSessionRows(db, session_id)
            /\ end_session' = "done"
       ELSE UNCHANGED <<disk, end_session>>
    /\ db' = disk'
    /\ sock' = FALSE
    /\ connected' = FALSE
    /\ conn' = FALSE
    /\ phase' = "exited"
    /\ UNCHANGED <<max_instructions, session_id, current_stage, stage_snapshots, i,
                   pc, instr_bytes, snap, steps, exit_reason, raised, written,
                   cls, rx,
                   batch, pat, stage_at_start>>

\* end_boot_session raises: gdb.close() and db.close() are not reached, and the
\* pending transaction is lost when the process ends
FinishRecordingFail ==
    /\ phase = "finish"
    /\ session_id # NoSession
    /\ end_session' = "failed"
    /\ raised' = "Exception"
    /\ db' = disk
    /\ phase' = "exited"
    /\ UNCHANGED <<max_instructions, conn, sock, connected, session_id,
                   current_stage, stage_snapshots, i, pc, instr_bytes, snap, disk,
                   steps, exit_reason, written, cls, rx,
                   batch, pat, stage_at_start>>

\* main() and the interpreter: no sys.exit and no return value of main(), so the
\* status is 0 unless an exception leaves main()
ExitStatus == IF raised # "none" THEN 1 ELSE 0

RecorderNext ==
    \/ StartRecordingInitFail
    \/ StartRecordingConnectFail
    \/ StartRecordingSessionFail
    \/ StartRecordingOk
    \/ LoopExhausted
    \/ ReadState
    \/ SaveSnapshotRow
    \/ SaveRegionRow
    \/ SaveSnapshotCommit
    \/ SaveTrace
    \/ SingleStep
    \/ Interrupt
    \/ StoreError
    \/ FinishRecording
    \/ FinishRecordingFail

Next == RecorderNext

Spec == Init /\ [][Next]_vars

---------------------------------------------------------------------------
(* The classifier on its own: every table of at most MaxTable entries over a *)
(* few names and addresses, and the configured table                        *)

ClsAddrs == { Addr(\h0000, \h0000), Addr(\h0000, \h0010), Addr(\h0001, \h0000),
              Addr(\h0001, \h0010) }
ClsNames == { "a", "b" }
ClsEntries == [name : ClsNames, start : ClsAddrs, end : ClsAddrs]

RECURSIVE TablesUpTo(_)
TablesUpTo(n) ==
    IF n = 0 THEN { <<>> }
    ELSE TablesUpTo(n - 1) \cup [1..n -> ClsEntries]

ClsTables == TablesUpTo(MaxTable) \cup { boot_stages }
ClsPcs == ClsAddrs \cup PcSet

ClassifyInit ==
    /\ RecorderInit
    /\ max_instructions = 0
    /\ disk = EmptyStore
    /\ rx = [state |-> "idle"]
    /\ batch = [state |-> "idle"]
    /\ pat = [state |-> "idle"]
    /\ \E t \in ClsTables, p \in ClsPcs : cls = [state |-> "input", table |-> t, pc |-> p]

\* one call of the classifier
Classify ==
    /\ cls.state = "input"
    /\ cls' = [state |-> "done", table |-> cls.table, pc |-> cls.pc,
               result |-> DetermineStage(cls.table, cls.pc)]
    /\ UNCHANGED mainVars
    /\ UNCHANGED <<rx, batch, pat>>

SpecClassify == ClassifyInit /\ [][Classify]_vars

---------------------------------------------------------------------------
(* The stub client (GDBInterface) on its own: one call of one operation       *)
(* against a peer that sends a stream of chunks.  Text is a sequence of       *)
(* one-character strings.                                                     *)

\* ord(c) of the characters of the commands
Ord(ch) ==
    CASE ch = "," -> 44
      [] ch = "0" -> 48 [] ch = "1" -> 49 [] ch = "2" -> 50 [] ch = "3" -> 51
      [] ch = "4" -> 52 [] ch = "5" -> 53 [] ch = "6" -> 54 [] ch = "7" -> 55
      [] ch = "8" -> 56 [] ch = "9" -> 57
      [] ch = "S" -> 83 [] ch = "Z" -> 90
      [] ch = "a" -> 97 [] ch = "b" -> 98 [] ch = "c" -> 99 [] ch = "d" -> 100
      [] ch = "e" -> 101 [] ch = "f" -> 102 [] ch = "g" -> 103 [] ch = "m" -> 109
      [] ch = "o" -> 111 [] ch = "p" -> 112 [] ch = "q" -> 113 [] ch = "r" -> 114
      [] ch = "s" -> 115 [] ch = "t" -> 116 [] ch = "u" -> 117

\* the calls made: the operation and its arguments
StubCalls ==
    { [op |-> "connect"],
      [op |-> "read_memory", address |-> Addr(\h0000, \h0000), size |-> 4],
      [op |-> "read_memory", address |-> Addr(\h4000, \h0E70), size |-> 4],
      [op |-> "read_memory", address |-> Addr(\h4100, \h0000), size |-> \h1000],
      [op |-> "read_registers"],
      [op |-> "get_current_pc"],
      [op |-> "single_step"],
      [op |-> "set_breakpoint", address |-> Addr(\h4000, \h0E70)],
      [op |-> "continue_execution"] }

\* the command text each operation builds
Command(call) ==
    CASE call.op = "connect" -> <<"q", "S", "u", "p", "p", "o", "r", "t", "e", "d">>
      [] call.op = "read_memory" -> <<"m">> \o HexAddr(call.address) \o <<",">> \o Hex(call.size)
      [] call.op \in {"read_registers", "get_current_pc"} -> <<"g">>
      [] call.op = "single_step" -> <<"s">>
      [] call.op = "set_breakpoint" -> <<"Z", "0", ",">> \o HexAddr(call.address) \o <<",", "4">>
      [] call.op = "continue_execution" -> <<"c">>

\* the checksum without "% 256"
ChecksumNoMod(command) == SumSeq([k \in 1..Len(command) |-> Ord(command[k])])

\* line 62
Checksum(command) == SumSeq([k \in 1..Len(command) |-> Ord(command[k])]) % 256

\* line 63: f"${command}#{checksum:02x}"
Packet(command) == <<"$">> \o command \o <<"#">> \o PadLeft(Hex(Checksum(command)), 2)

\* a reply to "g": 16 registers of 8 hex digits, r15 = 0x40000e70
RegisterReply ==
    <<"$">> \o [k \in 1..120 |-> "0"] \o <<"7", "0", "0", "e", "0", "0", "4", "0">>
            \o <<"#", "4", "0">>

\* what the peer sends in one recv(): acknowledgements, reply packets whole and
\* in parts, replies that are not hex, a register reply cut short
Chunks == { <<"+">>, <<"-">>, <<"$", "O", "K">>, <<"#", "9", "a">>,
            <<"$", "O", "K", "#", "9", "a">>, <<"O">>,
            <<"$", "S", "0", "5", "#", "b", "8">>,
            <<"+", "$", "S", "0", "5", "#", "b", "8">>,
            <<"$", "E", "0", "1", "#", "a", "6">>,
            <<"$", "0", "0", "0", "0", "a", "0", "e", "1", "#", "e", "7">>,
            <<"$", "1", "2", "3", "4", "5", "6", "7", "z", "#", "e", "6">>,
            <<"$", "1", "2", "3", "4", "5", "6", "7", "8", "z", "z", "#", "9", "8">>,
            RegisterReply }
Streams == { <<>> } \cup [1..1 -> Chunks] \cup [1..2 -> Chunks]
\* what recv() does once the peer has nothing more to send: block (the socket
\* has no timeout), return b'' (the peer closed) or raise (connection reset)
PeerEnds == { "silent", "closed", "reset" }

\* what goes wrong before a reply is awaited: nothing; the connection is
\* refused (connect); the operation is used before connect or after close;
\* send() raises
Faults(call) ==
    IF call.op = "connect" THEN { "none", "refused", "send_error" }
    ELSE { "none", "not_connected", "closed", "send_error" }

Contains(text, ch) == \E k \in 1..Len(text) : text[k] = ch

\* line 72
Terminated(response) ==
    Contains(response, "#") \/ Contains(response, "+") \/ Contains(response, "-")

\* "response.startswith('$') and '#' in response"
Framed(response) == response # <<>> /\ response[1] = "$" /\ Contains(response, "#")

\* response[1:response.index('#')]
HexData(response) ==
    SubSeq(response, 2, (CHOOSE k \in 1..Len(response) :
                            response[k] = "#" /\ \A j \in 1..(k - 1) : response[j] # "#") - 1)

\* the value of a hex digit as bytes.fromhex reads it, -1 for any other character
HexValue(ch) ==
    IF \E v \in 0..15 : HexDigits[v + 1] = ch
    THEN CHOOSE v \in 0..15 : HexDigits[v + 1] = ch
    ELSE CASE ch = "A" -> 10 [] ch = "B" -> 11 [] ch = "C" -> 12 [] ch = "D" -> 13
           [] ch = "E" -> 14 [] ch = "F" -> 15 [] OTHER -> -1

\* bytes.fromhex(text): ValueError on an odd length or a character that is not
\* a hex digit
FromHex(text) ==
    IF Len(text) % 2 = 1 \/ \E k \in 1..Len(text) : HexValue(text[k]) = -1
    THEN [exc |-> "ValueError", value |-> <<>>]
    ELSE [exc |-> "none",
          value |-> [k \in 1..(Len(text) \div 2) |->
                        16 * HexValue(text[2 * k - 1]) + HexValue(text[2 * k])]]

\* struct.unpack('<I', b)[0] as an address
UnpackLE(b) == Addr(b[4] * 256 + b[3], b[2] * 256 + b[1])

\* read_registers, lines 100-110: the registers r0.. that the reply is long
\* enough for, in order; the first group of 8 characters that is not hex raises
ParseRegisters(hex_data) ==
    LET count  == IF Len(hex_data) \div 8 < 16 THEN Len(hex_data) \div 8 ELSE 16
        groups == [k \in 1..count |-> FromHex(SubSeq(hex_data, 8 * k - 7, 8 * k))]
    IN  IF \E k \in 1..count : groups[k].exc # "none"
        THEN [exc |-> "ValueError", value |-> <<>>]
        ELSE [exc |-> "none", value |-> [k \in 1..count |-> UnpackLE(groups[k].value)]]

\* what each operation does with the response it received: the value it
\* computes, or the exception raised while computing it
Parse(op, response) ==
    CASE op = "connect" -> [exc |-> "none", value |-> TRUE]
      [] op = "read_memory" ->
            IF Framed(response) THEN FromHex(HexData(response))
            ELSE [exc |-> "none", value |-> <<>>]
      [] op = "read_registers" ->
            IF Framed(response) THEN ParseRegisters(HexData(response))
            ELSE [exc |-> "none", value |-> <<>>]
      [] op = "get_current_pc" ->
            LET registers == IF Framed(response) THEN ParseRegisters(HexData(response))
                             ELSE [exc |-> "none", value |-> <<>>]
            IN  [exc |-> registers.exc,
                 value |-> IF Len(registers.value) >= 16 THEN registers.value[16]
                           ELSE Addr(0, 0)]
      [] op = "single_step" -> [exc |-> "none", value |-> HasSub(response, <<"S", "0", "5">>)]
      [] op = "set_breakpoint" -> [exc |-> "none", value |-> HasSub(response, <<"O", "K">>)]
      [] op = "continue_execution" -> [exc |-> "none", value |-> response]

\* what each operation returns from its except clause
FailureValue(op) ==
    CASE op \in {"connect", "single_step", "set_breakpoint"} -> FALSE
      [] op \in {"read_memory", "read_registers", "continue_execution"} -> <<>>
      [] op = "get_current_pc" -> Addr(0, 0)

\* read_registers without its try/except: an exception under get_current_pc,
\* which has none of its own, leaves the operation
HandledButRegisters(op, exc) ==
    IF op = "get_current_pc"
    THEN [result |-> "none", escaped |-> exc]
    ELSE [result |-> FailureValue(op), escaped |-> "none"]

\* "except Exception" of every operation (get_current_pc: of read_registers)
Handled(op, exc) == [result |-> FailureValue(op), escaped |-> "none"]

StubInit ==
    /\ RecorderInit
    /\ max_instructions = 0
    /\ disk = EmptyStore
    /\ cls = [state |-> "idle"]
    /\ batch = [state |-> "idle"]
    /\ pat = [state |-> "idle"]
    /\ \E call \in StubCalls, st \in Streams, e \in PeerEnds :
          \E f \in Faults(call) :
              rx = [state |-> "idle", call |-> call, fault |-> f, sent |-> <<>>,
                    response |-> <<>>, stream |-> st, wire |-> Flatten(st), peer |-> e,
                    attempts |-> 0, exc |-> "none", escaped |-> "none", result |-> "none"]

\* the operation fails before it awaits a reply: sock.connect raises, or
\* _send_command raises RuntimeError (not connected) or send() raises
OpFails ==
    /\ rx.state = "idle"
    /\ rx.fault # "none"
    /\ LET exc == CASE rx.fault = "refused" -> "ConnectionRefusedError"
                    [] rx.fault \in {"not_connected", "closed"} -> "RuntimeError"
                    [] rx.fault = "send_error" -> "BrokenPipeError"
       IN  rx' = [rx EXCEPT !.state = "done", !.exc = exc,
                            !.result = Handled(rx.call.op, exc).result,
                            !.escaped = Handled(rx.call.op, exc).escaped]
    /\ UNCHANGED mainVars
    /\ UNCHANGED <<cls, batch, pat>>

\* an operation has sent its command and calls _receive_response: response = ""
ReceiveCall ==
    /\ rx.state = "idle"
    /\ rx.fault = "none"
    /\ rx' = [rx EXCEPT !.state = "receiving", !.response = <<>>,
                        !.sent = Packet(Command(rx.call))]
    /\ UNCHANGED mainVars
    /\ UNCHANGED <<cls, batch, pat>>

\* lines 70-73 when recv() returns data
RecvData ==
    /\ rx.state = "receiving"
    /\ rx.stream # <<>>
    /\ LET response == rx.response \o Head(rx.stream) IN
          rx' = [rx EXCEPT !.response = response,
                           !.stream = Tail(@),
                           !.state = IF Terminated(response) THEN "returned" ELSE "receiving"]
    /\ UNCHANGED mainVars
    /\ UNCHANGED <<cls, batch, pat>>

\* lines 70-73 when the peer has closed: recv() returns b'', response is
\* unchanged and the loop goes round again
RecvEof ==
    /\ rx.state = "receiving"
    /\ rx.stream = <<>>
    /\ rx.peer = "closed"
    /\ rx' = [rx EXCEPT !.attempts = IF @ < MaxRecv THEN @ + 1 ELSE @,
                        !.state = IF Terminated(rx.response) THEN "returned" ELSE "receiving"]
    /\ UNCHANGED mainVars
    /\ UNCHANGED <<cls, batch, pat>>

\* line 70 when the peer is silent: recv() on a socket without timeout blocks
RecvBlock ==
    /\ rx.state = "receiving"
    /\ rx.stream = <<>>
    /\ rx.peer = "silent"
    /\ rx' = [rx EXCEPT !.state = "blocked"]
    /\ UNCHANGED mainVars
    /\ UNCHANGED <<cls, batch, pat>>

\* line 70 when recv() raises: the calling operation's except returns its
\* failure value
RecvError ==
    /\ rx.state = "receiving"
    /\ rx.stream = <<>>
    /\ rx.peer = "reset"
    /\ rx' = [rx EXCEPT !.state = "failed", !.exc = "ConnectionResetError",
                        !.result = Handled(rx.call.op, "ConnectionResetError").result,
                        !.escaped = Handled(rx.call.op, "ConnectionResetError").escaped]
    /\ UNCHANGED mainVars
    /\ UNCHANGED <<cls, batch, pat>>

\* _receive_response has returned: the operation computes its result from the
\* response, or its except clause returns the failure value
ParseResponse ==
    /\ rx.state = "returned"
    /\ LET out == Parse(rx.call.op, rx.response) IN
          rx' = [rx EXCEPT !.state = "done", !.exc = out.exc,
                           !.result = IF out.exc = "none" THEN out.value
                                      ELSE Handled(rx.call.op, out.exc).result,
                           !.escaped = IF out.exc = "none" THEN "none"
                                       ELSE Handled(rx.call.op, out.exc).escaped]
    /\ UNCHANGED mainVars
    /\ UNCHANGED <<cls, batch, pat>>

StubNext ==
    \/ OpFails
    \/ ReceiveCall
    \/ RecvData
    \/ RecvEof
    \/ RecvBlock
    \/ RecvError
    \/ ParseResponse

SpecStub == StubInit /\ [][StubNext]_vars

\* the interpreter keeps running the thread: a step that can be taken is
\* taken.  The calls are those of single_step.
LiveStubInit == StubInit /\ rx.call.op = "single_step"
LiveStub == LiveStubInit /\ [][StubNext]_vars /\ WF_vars(StubNext)

---------------------------------------------------------------------------
(* A long recording, by the number of trace rows: batch.sequence rows were   *)
(* appended (sequence numbers 0 .. sequence-1), batch.pending of them are in *)
(* the open transaction and batch.committed are committed.                   *)

BatchInit ==
    /\ RecorderInit
    /\ max_instructions = 0
    /\ disk = EmptyStore
    /\ cls = [state |-> "idle"]
    /\ rx = [state |-> "idle"]
    /\ pat = [state |-> "idle"]
    /\ batch = [state |-> "recording", sequence |-> 0, pending |-> 0, committed |-> 0]

\* one iteration of record_boot_sequence without a stage transition:
\* save_instruction_trace(session_id, i, ...) with i = batch.sequence
BatchSaveTrace ==
    /\ batch.state = "recording"
    /\ batch.sequence < MaxSeq
    /\ batch' = [batch EXCEPT
                    !.sequence = @ + 1,
                    !.pending = IF TraceCommits(batch.sequence) THEN 0 ELSE @ + 1,
                    !.committed = IF TraceCommits(batch.sequence)
                                  THEN @ + batch.pending + 1 ELSE @]
    /\ UNCHANGED mainVars
    /\ UNCHANGED <<cls, rx, pat>>

\* one iteration with a stage transition: save_memory_snapshot commits the
\* open transaction (line 358) before the iteration's trace row is appended
BatchSnapshotSaveTrace ==
    /\ batch.state = "recording"
    /\ batch.sequence < MaxSeq
    /\ batch' = [batch EXCEPT
                    !.sequence = @ + 1,
                    !.pending = IF TraceCommits(batch.sequence) THEN 0 ELSE 1,
                    !.committed = IF TraceCommits(batch.sequence)
                                  THEN @ + batch.pending + 1 ELSE @ + batch.pending]
    /\ UNCHANGED mainVars
    /\ UNCHANGED <<cls, rx, pat>>

\* the loop is left (budget, failed step, interruption) and finish_recording
\* calls end_boot_session, which commits
BatchEndSession ==
    /\ batch.state = "recording"
    /\ batch' = [batch EXCEPT !.state = "ended",
                              !.pending = 0,
                              !.committed = @ + batch.pending]
    /\ UNCHANGED mainVars
    /\ UNCHANGED <<cls, rx, pat>>

BatchNext ==
    \/ BatchSaveTrace
    \/ BatchSnapshotSaveTrace
    \/ BatchEndSession

SpecBatch == BatchInit /\ [][BatchNext]_vars

---------------------------------------------------------------------------
(* One region saved by save_memory_snapshot and read back by the analysis    *)

\* region names: the keys _capture_memory_regions builds from the configured
\* regions, and names with capitals and with two keywords
PatNames ==
    { <<"g", "u", "e", "s", "t", "_", "b", "a", "s", "e">>,
      <<"s", "t", "a", "c", "k", "_", "r", "e", "g", "i", "o", "n">>,
      <<"d", "a", "t", "a", "_", "r", "e", "g", "i", "o", "n">>,
      <<"h", "e", "a", "p", "_", "r", "e", "g", "i", "o", "n">>,
      <<"p", "a", "t", "t", "e", "r", "n", "_", "r", "e", "g", "i", "o", "n">>,
      <<"S", "T", "A", "C", "K">>,
      <<"h", "e", "a", "p", "_", "d", "a", "t", "a">>,
      <<"h", "e", "a", "p", "_", "s", "t", "a", "c", "k">> }
PatLabels == { n \o <<"_", "0", "x">> \o Hex08(Addr(\h4100, \h0000)) : n \in PatNames }

\* n copies of a word's bytes
Repeat(word, n) == [k \in 1..(Len(word) * n) |-> word[((k - 1) % Len(word)) + 1]]

\* the bytes in memory of the words the firmware paints: 0xDEADBEEF,
\* 0x12345678, 0xCAFEBABE, 0x55AA55AA
PatWords == { <<239, 190, 173, 222>>, <<120, 86, 52, 18>>, <<190, 186, 254, 202>>,
              <<170, 85, 170, 85>> }

\* region contents built around the bytes of a word
PatData(word) ==
    LET pieces == { word, <<0>>, SubSeq(word, 1, 2), SubSeq(word, 3, 4) }
        bytes  == { word[k] : k \in 1..Len(word) } \cup {0}
    IN  { Flatten(ps) : ps \in UNION { [1..n -> pieces] : n \in 0..MaxPieces } }
        \cup UNION { [1..n -> bytes] : n \in 0..MaxBytes }
        \cup { Repeat(word, MaxReps) }

PatternInit ==
    /\ RecorderInit
    /\ max_instructions = 0
    /\ disk = EmptyStore
    /\ cls = [state |-> "idle"]
    /\ rx = [state |-> "idle"]
    /\ batch = [state |-> "idle"]
    /\ \E label \in PatLabels, word \in PatWords :
          \E data \in PatData(word) :
              pat = [state |-> "input", region_name |-> label, data |-> data]

\* save_memory_snapshot stores the region row
SaveRegion ==
    /\ pat.state = "input"
    /\ pat' = [state |-> "saved", region_name |-> pat.region_name, data |-> pat.data,
               row |-> RegionAnalysis(pat.region_name, pat.data)]
    /\ UNCHANGED mainVars
    /\ UNCHANGED <<cls, rx, batch>>

\* analyze_memory_evolution reads the row
AnalyzeRegion ==
    /\ pat.state = "saved"
    /\ pat' = [state |-> "analyzed", region_name |-> pat.region_name, data |-> pat.data,
               row |-> pat.row, match_percentage |-> MatchPercentage(pat.row)]
    /\ UNCHANGED mainVars
    /\ UNCHANGED <<cls, rx, batch>>

PatternNext ==
    \/ SaveRegion
    \/ AnalyzeRegion

SpecPattern == PatternInit /\ [][PatternNext]_vars

---------------------------------------------------------------------------
(* Properties *)

\* the trace rows of one session, in append order
SessionTraces(S, sid) == SelectSeq(S.traces, LAMBDA r : r.session_id = sid)
\* the snapshot rows of one session
SessionSnapshots(S, sid) == SelectSeq(S.snapshots, LAMBDA r : r.session_id = sid)
\* the region rows that reference one snapshot, in append order
SnapshotRegions(S, id) == SelectSeq(S.regions, LAMBDA r : r.snapshot_id = id)
SessionIds(S) == { S.sessions[k].session_id : k \in 1..Len(S.sessions) }
\* the row of session sid
SessionOf(S, sid) == S.sessions[CHOOSE k \in 1..Len(S.sessions) : S.sessions[k].session_id = sid]

GapFree(S) ==
    \A sid \in SessionIds(S) :
        LET rows == SessionTraces(S, sid) IN
        \A k \in 1..Len(rows) : rows[k].sequence_number = k - 1

\* C1: in every reachable state of the store, as the connection sees it and as
\* committed, the k-th trace row of a session has sequence number k-1 (strictly
\* increasing, no gaps), whatever transitions, read failures, step failure,
\* interruption or store error occur.
C1_TraceSequenceGapFree == GapFree(db) /\ GapFree(disk)

\* C1 witness: a finished run whose session has two committed trace rows, one of
\* them with an unreadable instruction, and a stage snapshot.
C1_Witness ==
    /\ phase = "exited"
    /\ session_id # NoSession
    /\ Len(SessionTraces(disk, session_id)) = 2
    /\ SessionTraces(disk, session_id)[1].instruction_bytes = <<>>
    /\ SessionSnapshots(disk, session_id) # <<>>
    /\ exit_reason = "step_failed"

\* C2: for every snapshot row of the committed store, the sizes of the region
\* rows that reference it sum to its total_size.
C2_RegionSizesSumToTotal ==
    \A k \in 1..Len(disk.snapshots) :
        LET rows == SnapshotRegions(disk, disk.snapshots[k].snapshot_id) IN
        SumSeq([j \in 1..Len(rows) |-> rows[j].size]) = disk.snapshots[k].total_size

\* C3: after the recording path is left, however it was left, every committed
\* snapshot row has all of its region rows.
C3_NoPartialSnapshotCommitted ==
    phase = "exited" =>
        \A k \in 1..Len(disk.snapshots) :
            LET rows == SnapshotRegions(disk, disk.snapshots[k].snapshot_id) IN
            [j \in 1..Len(rows) |-> rows[j].region_name] = disk.snapshots[k].memory_regions

\* the configured range of a stage
StageEntry(name) == boot_stages[CHOOSE k \in 1..Len(boot_stages) : boot_stages[k].name = name]
InStageRange(name, p) == AddrLE(StageEntry(name).start, p) /\ AddrLT(p, StageEntry(name).end)
\* the step sequence enters the range once and then stays in it
EntersOnceAndStays(name, pcs) ==
    \E k \in 1..Len(pcs) :
        /\ \A j \in 1..(k - 1) : ~InStageRange(name, pcs[j])
        /\ \A j \in k..Len(pcs) : InStageRange(name, pcs[j])

\* C4: a run without interruption or store error whose program counter enters
\* the configured range of "freertos_main" once and stays there leaves exactly
\* one snapshot row tagged "freertos_main".
C4_OneFreertosMainSnapshot ==
    ( /\ phase = "exited"
      /\ exit_reason \in {"budget", "step_failed"}
      /\ end_session = "done"
      /\ LET rows == SessionTraces(disk, session_id) IN
         EntersOnceAndStays("freertos_main", [k \in 1..Len(rows) |-> rows[k].pc_address]) )
    => Len(SelectSeq(SessionSnapshots(disk, session_id),
                     LAMBDA r : r.boot_stage = "freertos_main")) = 1

\* the entries of a table whose half-open range contains p
Matching(table, p) ==
    { k \in 1..Len(table) : AddrLE(table[k].start, p) /\ AddrLT(p, table[k].end) }

\* C5: for every table and program counter the classifier returns the name of
\* the first entry whose range [start, end) contains the value, and "unknown"
\* when no entry contains it.
C5_FirstMatchWins ==
    cls.state = "done" =>
        LET hits == Matching(cls.table, cls.pc) IN
        cls.result = IF hits = {} THEN "unknown"
                     ELSE cls.table[CHOOSE k \in hits : \A j \in hits : k <= j].name

\* C5 witness: two overlapping entries with different names both contain the
\* value, and the earlier one was returned.
C5_Witness ==
    /\ cls.state = "done"
    /\ Len(cls.table) = 2
    /\ Matching(cls.table, cls.pc) = {1, 2}
    /\ cls.table[1].name # cls.table[2].name
    /\ cls.result = cls.table[1].name

\* C6: when the loop is left because single_step failed at the n-th step, and
\* end_boot_session did not fail, exactly n trace rows of the session are
\* committed and the session's end_time is set.
C6_StepFailureCommitsAllRows ==
    (phase = "exited" /\ exit_reason = "step_failed" /\ end_session # "failed") =>
        /\ Len(SessionTraces(disk, session_id)) = steps
        /\ SessionOf(disk, session_id).end_time # NULL

\* C6 witness: single_step failed at step 1 of a budget of 2.
C6_Witness ==
    /\ phase = "exited"
    /\ exit_reason = "step_failed"
    /\ end_session = "done"
    /\ steps = 1
    /\ steps < max_instructions
    /\ Len(SessionTraces(disk, session_id)) = 1

\* C7: a recording that started and ran with a budget of 0, and whose
\* end_boot_session did not fail, leaves a session row with start_time and
\* end_time set and no trace row and no snapshot row of that session.
C7_ZeroBudgetSession ==
    (phase = "exited" /\ max_instructions = 0 /\ session_id # NoSession
        /\ end_session # "failed") =>
        /\ SessionOf(disk, session_id).start_time # NULL
        /\ SessionOf(disk, session_id).end_time # NULL
        /\ SessionTraces(disk, session_id) = <<>>
        /\ SessionSnapshots(disk, session_id) = <<>>

\* C7 witness: a budget-0 run on a store that already holds a session.
C7_Witness ==
    /\ phase = "exited"
    /\ max_instructions = 0
    /\ session_id = 2
    /\ exit_reason = "budget"
    /\ end_session = "done"
    /\ disk.traces # <<>>

\* C8: whenever the recording path has been left, the store connection and the
\* stub socket are both released.
C8_ConnectionsReleasedOnExit ==
    phase = "exited" => (~conn /\ ~sock)

\* C9: when the loop is left by the cancellation signal, and end_boot_session
\* did not fail, every row written up to then is committed and the session's
\* end_time is set.
C9_InterruptKeepsRows ==
    (phase = "exited" /\ exit_reason = "interrupted" /\ end_session # "failed") =>
        /\ disk.traces = written.traces
        /\ disk.snapshots = written.snapshots
        /\ disk.regions = written.regions
        /\ SessionOf(disk, session_id).end_time # NULL

\* C9 witness: interrupted in the second iteration, inside save_memory_snapshot,
\* with the snapshot row and a region row written but not committed; they are
\* in the committed store afterwards.
C9_Witness ==
    /\ phase = "exited"
    /\ exit_reason = "interrupted"
    /\ end_session = "done"
    /\ i = 1
    /\ snap # NoSnap
    /\ SnapshotRegions(disk, Len(disk.snapshots)) # <<>>
    /\ Len(SessionTraces(disk, session_id)) = 1

\* C10: every call of _receive_response ends: it returns, or it raises and the
\* calling operation returns its failure value.
C10_ReceiveTerminates ==
    (rx.state = "receiving") ~> (rx.state \in {"returned", "failed"})

C12_EmptyReadContinues ==
    /\ [][(phase = "loop" /\ ~LoopDone /\ phase' = "finish")
            => (exit_reason' = "interrupted" \/ Len(instr_bytes') > 4)]_vars
    /\ [][(phase = "trace" /\ instr_bytes = <<>> /\ exit_reason' = exit_reason)
            => /\ phase' = "step"
               /\ Len(db'.traces) = Len(db.traces) + 1
               /\ db'.traces[Len(db'.traces)].session_id = session_id
               /\ db'.traces[Len(db'.traces)].sequence_number = i
               /\ db'.traces[Len(db'.traces)].instruction_bytes = <<>>
               /\ db'.traces[Len(db'.traces)].disassembly = "invalid"]_vars
    /\ [][(phase = "step" /\ instr_bytes = <<>> /\ exit_reason' # "interrupted")
            => /\ steps' = steps + 1
               /\ exit_reason' = exit_reason
                    => (phase' = "snapshot" \/ (phase' = "loop" /\ i' = i + 1))]_vars

\* C12 witness: the second iteration is reached after a first one in which the
\* instruction read was empty and the snapshot taken at the stage transition
\* lacks the regions whose read was empty.
C12_Witness ==
    /\ phase = "loop"
    /\ i = 1
    /\ steps = 1
    /\ Len(SessionTraces(db, session_id)) = 1
    /\ SessionTraces(db, session_id)[1].instruction_bytes = <<>>
    /\ Len(SessionSnapshots(db, session_id)) = 1
    /\ Len(SessionSnapshots(db, session_id)[1].memory_regions) = 2

\* C13: the process ends with status 0 when the recording completed (budget
\* used up or single step failed) or was interrupted by the user, and with a
\* non-zero status when store initialisation or the stub connection failed.
C13_ExitStatus ==
    phase = "exited" =>
        /\ (exit_reason \in {"budget", "step_failed", "interrupted"}
              /\ end_session = "done") => ExitStatus = 0
        /\ exit_reason \in {"init_failed", "connect_failed"} => ExitStatus # 0

AlignedMatches(data, word) ==
    Cardinality({ k \in 0..((Len(data) \div 4) - 1) : SubSeq(data, 4 * k + 1, 4 * k + 4) = word })

\* C15: every region row with an expected pattern has
\* 0 <= pattern_matches <= size // 4, whatever the region's bytes and length.
C15_PatternMatchesBounded ==
    (pat.state \in {"saved", "analyzed"} /\ pat.row.expected_pattern # NoPattern) =>
        /\ 0 <= pat.row.pattern_matches
        /\ pat.row.pattern_matches <= pat.row.size \div 4

\* C15 witness: a 6-byte region under a "pattern" name holding aa 55 aa 55 aa 55,
\* where the word occurs at offsets 0 and 2: one match is stored, and 6 // 4 = 1.
C15_Witness ==
    /\ pat.state = "saved"
    /\ pat.row.expected_pattern = <<\h55AA, \h55AA>>
    /\ pat.data = <<170, 85, 170, 85, 170, 85>>
    /\ pat.row.pattern_matches = 1

\* C16: the stored pattern_matches of a region with an expected pattern is the
\* number of 4-byte-aligned word positions of its bytes that hold the
\* little-endian bytes of the expected word.
C16_AlignedMatchesOnly ==
    (pat.state \in {"saved", "analyzed"} /\ pat.row.expected_pattern # NoPattern) =>
        pat.row.pattern_matches = AlignedMatches(pat.data, PackLE(pat.row.expected_pattern))

\* C17: a region of n >= 1 repetitions of ef be ad de saved under a name that
\* contains "stack" is stored with pattern_matches = n, and the analysis
\* reports a match_percentage of 100.
C17_FullStackPattern ==
    \A n \in {1, 2, 3, 4, MaxReps} :
        ( /\ pat.state \in {"saved", "analyzed"}
          /\ HasSub(Lower(pat.region_name), <<"s", "t", "a", "c", "k">>)
          /\ pat.data = Repeat(<<239, 190, 173, 222>>, n) ) =>
            /\ pat.row.pattern_matches = n
            /\ pat.state = "analyzed" =>
                  /\ pat.match_percentage.raised = "none"
                  /\ pat.match_percentage.num = 100 * pat.match_percentage.den

\* C17 witness: the region of the largest number of repetitions, analysed.
C17_Witness ==
    /\ pat.state = "analyzed"
    /\ pat.region_name = <<"s", "t", "a", "c", "k", "_", "r", "e", "g", "i", "o", "n", "_", "0", "x",
                           "4", "1", "0", "0", "0", "0", "0", "0">>
    /\ pat.data = Repeat(<<239, 190, 173, 222>>, MaxReps)
    /\ pat.row.size = 4 * MaxReps
    /\ pat.row.pattern_matches = MaxReps
    /\ pat.match_percentage.num = 100 * MaxReps

\* C18: every packet sent is "$", the command, "#" and exactly two lowercase
\* hexadecimal digits whose value is the sum of the command's character codes
\* modulo 256.
C18_CommandFraming ==
    rx.sent # <<>> =>
        LET n == Len(rx.sent)
            payload == SubSeq(rx.sent, 2, n - 3)
            digit(ch) == CHOOSE v \in 0..15 : HexDigits[v + 1] = ch
        IN  /\ n >= 4
            /\ rx.sent[1] = "$"
            /\ payload = Command(rx.call)
            /\ ~Contains(payload, "#")
            /\ rx.sent[n - 2] = "#"
            /\ \A k \in {n - 1, n} : \E v \in 0..15 : HexDigits[v + 1] = rx.sent[k]
            /\ 16 * digit(rx.sent[n - 1]) + digit(rx.sent[n])
                   = SumSeq([k \in 1..Len(payload) |-> Ord(payload[k])]) % 256

\* C18 witness: the handshake of connect, whose character codes sum to 1079:
\* the packet is $qSupported#37.
C18_Witness ==
    /\ rx.call.op = "connect"
    /\ rx.sent = <<"$", "q", "S", "u", "p", "p", "o", "r", "t", "e", "d", "#", "3", "7">>

\* the payload of the first packet in what the peer sent
StubReply(wire) ==
    IF \E a \in 1..Len(wire) : wire[a] = "$" /\ \E b \in (a + 1)..Len(wire) : wire[b] = "#"
    THEN LET a == CHOOSE k \in 1..Len(wire) : wire[k] = "$" /\ \A j \in 1..(k - 1) : wire[j] # "$"
             b == CHOOSE k \in (a + 1)..Len(wire) :
                      wire[k] = "#" /\ \A j \in (a + 1)..(k - 1) : wire[j] # "#"
         IN  SubSeq(wire, a + 1, b - 1)
    ELSE <<>>

\* C19: single_step returns True exactly when no send or receive failed and
\* the reply the stub sent to the step command is the trap stop reply S05, and
\* False otherwise.
C19_StepTrueIffTrap ==
    (rx.state \in {"done", "failed"} /\ rx.call.op = "single_step") =>
        (rx.result <=> (rx.exc = "none" /\ StubReply(rx.wire) = <<"S", "0", "5">>))

\* C20: while the recorder is recording, the store and the stub connection are
\* open and the session row exists; a session id is only ever set with both
\* open; and in a run whose store initialisation or stub connection failed the
\* store, pending and committed, is as it was before the run.
C20_RecordingOnlyAfterInitAndConnect ==
    /\ phase \in LoopPhases =>
          /\ conn /\ sock /\ connected
          /\ session_id # NoSession
          /\ session_id \in SessionIds(disk)
    /\ exit_reason \in {"init_failed", "connect_failed"} =>
          /\ phase = "exited"
          /\ session_id = NoSession
          /\ db \in {EmptyStore, PriorStore}
          /\ disk = db

\* C20 witness: the connection failed after the socket was created, on a store
\* that holds an earlier session; the store still holds just that session.
C20_Witness ==
    /\ phase = "exited"
    /\ exit_reason = "connect_failed"
    /\ conn /\ sock /\ ~connected
    /\ disk = PriorStore
    /\ Len(disk.sessions) = 1

\* a is an initial part of b
IsPrefix(a, b) == Len(a) <= Len(b) /\ SubSeq(b, 1, Len(a)) = a
\* every table of store T begins with the rows of the same table of store S
Extends(S, T) ==
    /\ IsPrefix(S.sessions, T.sessions)
    /\ IsPrefix(S.snapshots, T.snapshots)
    /\ IsPrefix(S.regions, T.regions)
    /\ IsPrefix(S.traces, T.traces)

\* C21: a step of save_memory_snapshot or save_instruction_trace leaves every
\* existing row as it is, in the connection's view and in the committed store:
\* rows are only added behind them, and no session row is added or changed.
\* end_boot_session leaves every snapshot, region and trace row and every
\* other session row as it is, and changes only end_time in the row of the
\* session it is given.
C21_StoreOnlyAppends ==
    /\ [][(phase \in {"snapshot", "regions", "trace"})
            => ( /\ Extends(db, db')
                 /\ Extends(disk, disk')
                 /\ db'.sessions = db.sessions )]_vars
    /\ [][(phase = "finish" /\ end_session' = "done")
         => /\ disk'.snapshots = db.snapshots
            /\ disk'.regions = db.regions
            /\ disk'.traces = db.traces
            /\ Len(disk'.sessions) = Len(db.sessions)
            /\ \A k \in 1..Len(db.sessions) : (
                  /\ disk'.sessions[k].session_id = db.sessions[k].session_id
                  /\ disk'.sessions[k].start_time = db.sessions[k].start_time
                  /\ db.sessions[k].session_id # session_id
                        => disk'.sessions[k] = db.sessions[k]
                  /\ db.sessions[k].session_id = session_id
                        => disk'.sessions[k].end_time = Timestamp )]_vars

\* C21 witness: a second session with two snapshots, their regions and two
\* trace rows was recorded and ended on a store that held an earlier session,
\* whose rows are as they were.
C21_Witness ==
    /\ phase = "exited"
    /\ end_session = "done"
    /\ session_id = 2
    /\ IsPrefix(PriorStore.traces, disk.traces)
    /\ disk.sessions[1] = PriorStore.sessions[1]
    /\ Len(SessionSnapshots(disk, 2)) = 2
    /\ SnapshotRegions(disk, 1) # <<>>
    /\ SnapshotRegions(disk, 2) # <<>>
    /\ Len(SessionTraces(disk, 2)) = 2

\* C22: in the step of the loop that classifies the program counter: when the
\* classified stage is the current stage, the stage stays and nothing is
\* saved; when it differs and is "unknown", the current stage becomes
\* "unknown" and nothing is saved; when it differs and is not "unknown", a
\* snapshot tagged with it is saved, and once it is saved the current stage is
\* the classified stage and the snapshot's id is recorded against the stage
\* name.  A snapshot row is written only by a snapshot begun in this way or
\* by the supplementary snapshot of "pattern_painting".
C22_StageTransition ==
    /\ [][(phase = "loop" /\ phase' \in {"trace", "snapshot"}) =>
            LET new_stage == _determine_boot_stage(pc') IN
            /\ new_stage = current_stage =>
                  ( /\ phase' = "trace"
                    /\ current_stage' = current_stage
                    /\ db' = db
                    /\ stage_snapshots' = stage_snapshots )
            /\ (new_stage # current_stage /\ new_stage = "unknown") =>
                  ( /\ phase' = "trace"
                    /\ current_stage' = "unknown"
                    /\ db' = db
                    /\ stage_snapshots' = stage_snapshots )
            /\ (new_stage # current_stage /\ new_stage # "unknown") =>
                  ( /\ phase' = "snapshot"
                    /\ snap'.kind = "transition"
                    /\ snap'.stage = new_stage )]_vars
    /\ [][(phase = "regions" /\ phase' = "trace") =>
            ( /\ snap.stage = _determine_boot_stage(pc)
              /\ current_stage' = snap.stage
              /\ <<snap.stage, snap.snapshot_id>> \in stage_snapshots'
              /\ disk'.snapshots[snap.snapshot_id].boot_stage = snap.stage
              /\ disk'.snapshots[snap.snapshot_id].session_id = session_id )]_vars
    /\ [][(Len(db'.snapshots) > Len(db.snapshots)) => phase = "snapshot"]_vars

\* C22 witness: the first step entered "rootserver_start" (snapshot saved and
\* recorded), the second was classified "unknown": the current stage is
\* "unknown" and there is still one snapshot.
C22_Witness ==
    /\ phase = "step"
    /\ i = 1
    /\ current_stage = "unknown"
    /\ stage_at_start = "rootserver_start"
    /\ Len(SessionSnapshots(db, session_id)) = 1
    /\ SessionSnapshots(db, session_id)[1].boot_stage = "rootserver_start"
    /\ \E e \in stage_snapshots : e[1] = "rootserver_start"

\* C23: for every step of the session that has been carried out, whose program
\* counter was in the configured range of "pattern_painting" and whose index is
\* a multiple of 5000, the session has a snapshot tagged
\* pattern_painting_step_<index // 5000>.
C23_SupplementarySnapshots ==
    LET rows == SessionTraces(db, session_id) IN
    \A k \in 1..Len(rows) :
        ( /\ InStageRange("pattern_painting", rows[k].pc_address)
          /\ rows[k].sequence_number % SnapshotEvery = 0
          /\ i > rows[k].sequence_number ) =>
            \E j \in 1..Len(SessionSnapshots(db, session_id)) :
                SessionSnapshots(db, session_id)[j].boot_stage =
                    "pattern_painting_step_" \o ToString(rows[k].sequence_number \div SnapshotEvery)

\* C24: the trace row written for a step carries the stage the recorder had
\* when the step began, before the step's own stage update.
C24_TraceTaggedWithStageAtStart ==
    phase = "step" =>
        LET rows == SessionTraces(db, session_id) IN
        rows[Len(rows)].boot_stage = stage_at_start

\* C27: every trace row, pending or committed, carries the stage that the
\* classifier returns for the row's own pc_address under the configured table.
C27_TraceStageIsClassifiedStage ==
    /\ \A k \in 1..Len(db.traces) :
          db.traces[k].boot_stage = _determine_boot_stage(db.traces[k].pc_address)
    /\ \A k \in 1..Len(disk.traces) :
          disk.traces[k].boot_stage = _determine_boot_stage(disk.traces[k].pc_address)

\* C27 witness: two rows of one session: the first step entered
\* "rootserver_start", the second left every range; each row carries the stage
\* of its own program counter, not the stage the step began with.
C27_Witness ==
    /\ phase = "step"
    /\ i = 1
    /\ LET rows == SessionTraces(db, session_id) IN
          /\ Len(rows) = 2
          /\ rows[1].pc_address = Addr(\h0001, \h0000)
          /\ rows[1].boot_stage = "rootserver_start"
          /\ rows[2].pc_address = Addr(\h4000, \h1000)
          /\ rows[2].boot_stage = "unknown"
    /\ stage_at_start = "rootserver_start"

\* the keywords in the order of the tests, and the word each one stands for
Keywords ==
    << <<"s", "t", "a", "c", "k">>, <<"d", "a", "t", "a">>, <<"h", "e", "a", "p">>,
       <<"p", "a", "t", "t", "e", "r", "n">> >>
KeywordWords ==
    << <<\hDEAD, \hBEEF>>, <<\h1234, \h5678>>, <<\hCAFE, \hBABE>>, <<\h55AA, \h55AA>> >>
\* the positions of the keywords a name contains, capitals ignored
KeywordsIn(name) == { k \in 1..Len(Keywords) : HasSub(Lower(name), Keywords[k]) }

\* C25: the expected pattern of a stored region row is the word of the first
\* keyword, in the order stack, data, heap, pattern, that its name contains
\* with capitals ignored; a name that contains no keyword has no expected
\* pattern and 0 pattern matches.
C25_FirstKeywordWins ==
    pat.state \in {"saved", "analyzed"} =>
        LET found == KeywordsIn(pat.region_name) IN
        IF found = {}
        THEN /\ pat.row.expected_pattern = NoPattern
             /\ pat.row.pattern_matches = 0
        ELSE \E k \in found :
                /\ \A j \in found : k <= j
                /\ pat.row.expected_pattern = KeywordWords[k]

\* a region named heap_stack_0x41000000 that holds the heap word is stored
\* with the stack word as its expected pattern
C25_Witness ==
    /\ pat.state = "saved"
    /\ KeywordsIn(pat.region_name) = {1, 3}
    /\ pat.data = <<190, 186, 254, 202>>
    /\ pat.row.expected_pattern = <<\hDEAD, \hBEEF>>
    /\ pat.row.pattern_matches = 0

\* C30: for every region row with an expected pattern that the recorder can
\* store (a read that returned at least one byte), rows shorter than 4 bytes
\* included, the analysis computes a match_percentage without raising, and the
\* value lies between 0 and 100.
C30_MatchPercentageDefined ==
    (pat.state = "analyzed" /\ pat.row.size >= 1 /\ pat.row.expected_pattern # NoPattern) =>
        /\ pat.match_percentage.raised = "none"
        /\ 0 <= pat.match_percentage.num
        /\ pat.match_percentage.num <= 100 * pat.match_percentage.den

\* the first complete packet "$payload#xx" in what the peer sent, <<>> when
\* there is none
ReplyPacket(wire) ==
    LET starts == { a \in 1..Len(wire) : wire[a] = "$" }
        ends   == { b \in 1..Len(wire) : wire[b] = "#" /\ b + 2 <= Len(wire)
                                          /\ \E a \in starts : a < b }
    IN  IF ends = {} THEN <<>>
        ELSE LET b == CHOOSE k \in ends : \A j \in ends : k <= j
                 a == CHOOSE k \in starts : k < b /\ \A j \in starts : j < b => k <= j
             IN  SubSeq(wire, a, b + 2)

\* C26: when the stub answers a command with a complete reply packet, with or
\* without a '+' acknowledgement before it and in whatever chunks the bytes
\* arrive, the text _receive_response returns for that command contains that
\* reply packet.
C26_ResponseHoldsReply ==
    (/\ rx.state \in {"returned", "done"}
     /\ rx.exc = "none"
     /\ rx.wire # <<>>
     /\ rx.wire[1] \in {"+", "$"}
     /\ ReplyPacket(rx.wire) # <<>>) =>
        HasSub(rx.response, ReplyPacket(rx.wire))

\* C28: every committed snapshot row has a region row for exactly the regions
\* whose read returned data, the regions its memory_regions column lists, and
\* no region row is empty.
C28_RegionRowsAreTheNonEmptyReads ==
    \A k \in 1..Len(disk.snapshots) :
        LET rows == SnapshotRegions(disk, disk.snapshots[k].snapshot_id) IN
        /\ Len(rows) = Len(disk.snapshots[k].memory_regions)
        /\ \A j \in 1..Len(rows) :
              /\ rows[j].region_name = disk.snapshots[k].memory_regions[j]
              /\ rows[j].size > 0

\* C29: in every trace row whose program counter is the entry address of a
\* known function the function name is that function's name, and in every
\* trace row whose program counter lies in no function's 4 KB window it is the
\* label unknown_0x<pc>.
C29_FunctionNameOfEntryAddress ==
    \A k \in 1..Len(db.traces) :
        LET row == db.traces[k] IN
        /\ \A f \in 1..Len(functions) :
              row.pc_address = functions[f].addr => row.function_name = functions[f].name
        /\ (\A f \in 1..Len(functions) :
                ~(/\ AddrLE(functions[f].addr, row.pc_address)
                  /\ AddrLT(row.pc_address, AddrPlus(functions[f].addr, \h1000))))
              => row.function_name = UnknownFunction(row.pc_address)

====
